---- MODULE Spec2Model ----
(***************************************************************************)
(* Model of package zax (src/zax.go): zap fields carried in a             *)
(* context.Context under the private key loggerKey.                       *)
(*                                                                         *)
(* A []zap.Field is a Go slice: a header (array, len, cap) over a backing  *)
(* array that other slices may share.  The heap of backing arrays is part  *)
(* of the state, because append (zax.go:31, zax.go:79) writes into the     *)
(* backing array of its first argument whenever the capacity suffices.     *)
(*                                                                         *)
(* The package never looks at a field's value, only at field.Key           *)
(* (zax.go:63, zax.go:78), so a value is an opaque token; every supplied   *)
(* field carries a value that names the call and the argument position    *)
(* that supplied it, which makes any two supplied fields distinguishable.  *)
(***************************************************************************)
EXTENDS Integers, Sequences, FiniteSets, TLC

VARIABLES heap, ctxs, last

vars == <<heap, ctxs, last>>

\* ------------------------------------------------------------------ bounds
\* Contexts derived from the root context in one behaviour.
MaxCtx == 3
\* Fields supplied to Set and Append, over all calls of one behaviour.
MaxFields == 3
\* The same two bounds for the fan-out specification, which needs a parent
\* with spare capacity and two children of it.
MaxCtxFan == 4
MaxFieldsFan == 4
\* The same two bounds for the specification the read operations are
\* checked under: their properties are checked for every context of every
\* state and every list of requested keys.
MaxCtxRead == 2
MaxFieldsRead == 2

\* Keys the callers bind, and keys the readers ask for.
Keys == {"a", "b"}
ReqKeys == Keys \cup {"missing"}

\* ------------------------------------------------------------ zap fields
AbsentFieldsKey == "_absentFields"

\* zap.Field{}: the zero value.
ZeroField == [Key |-> "", Type |-> "Unknown", Val |-> 0, Strs |-> <<>>]

\* A field a caller builds (zap.String, zap.Int, ...): key and opaque value.
ZapField(k, v) == [Key |-> k, Type |-> "Value", Val |-> v, Strs |-> <<>>]

\* zap.Strings(key, ss).
ZapStrings(k, ss) == [Key |-> k, Type |-> "ArrayMarshaler", Val |-> 0, Strs |-> ss]

\* ------------------------------------------------------------- Go slices
\* The nil slice; also stands for make([]T, 0, 0).
NilSlice == [arr |-> 0, len |-> 0, cap |-> 0]

\* The elements a slice header shows of heap h.
ElemsIn(h, s) == IF s.arr = 0 THEN <<>> ELSE SubSeq(h[s.arr], 1, s.len)

ZeroArray(n) == [j \in 1..n |-> ZeroField]

Max(x, y) == IF x >= y THEN x ELSE y

\* Capacity of the array append allocates when oldCap is too small: the
\* runtime doubles a small capacity, or takes the needed length if that is
\* larger (size classes leave capacities of 64-byte elements below 13 as is).
GrowCap(oldCap, newLen) == Max(newLen, 2 * oldCap)

\* A caller's slice literal holding F: a fresh array with cap = len.
\* Result: the heap and the slice header.
Literal(h, F) ==
    IF Len(F) = 0 THEN [heap |-> h, slice |-> NilSlice]
    ELSE [heap |-> Append(h, F),
          slice |-> [arr |-> Len(h) + 1, len |-> Len(F), cap |-> Len(F)]]

\* make([]zap.Field, 0, n).
MakeSlice(h, n) ==
    IF n = 0 THEN [heap |-> h, slice |-> NilSlice]
    ELSE [heap |-> Append(h, ZeroArray(n)),
          slice |-> [arr |-> Len(h) + 1, len |-> 0, cap |-> n]]

\* Go's append(s, xs...) on heap h: nothing to add returns s; room in the
\* backing array is written in place; otherwise a larger array is allocated
\* and s's elements are copied into it.
GoAppend(h, s, xs) ==
    LET n == s.len + Len(xs) IN
    IF Len(xs) = 0 THEN [heap |-> h, slice |-> s]
    ELSE IF n <= s.cap
    THEN [heap |-> [h EXCEPT ![s.arr] =
                      [j \in 1..s.cap |->
                         IF j > s.len /\ j <= n THEN xs[j - s.len] ELSE @[j]]],
          slice |-> [s EXCEPT !.len = n]]
    ELSE LET c == GrowCap(s.cap, n) IN
         [heap |-> Append(h, [j \in 1..c |->
                                IF j <= s.len THEN h[s.arr][j]
                                ELSE IF j <= n THEN xs[j - s.len]
                                ELSE ZeroField]),
          slice |-> [arr |-> Len(h) + 1, len |-> n, cap |-> c]]

\* -------------------------------------------------------------- contexts
\* ctxs[1] is context.Background(); every other context was returned by
\* context.WithValue(parent, loggerKey, slice).  op, parent and arg record
\* the call that made it.
RootCtx == 1

Background ==
    [bound |-> FALSE, slice |-> NilSlice, op |-> "Background", parent |-> 0, arg |-> <<>>]

CtxIds == 1..Len(ctxs)

\* ctx.Value(loggerKey).([]zap.Field): the ok flag and the slice.
Bound(c) == ctxs[c].bound
LoggerFields(c) == ctxs[c].slice

\* context.WithValue(ctx, loggerKey, fields), recorded with the call.
WithValue(c, s, op, F) ==
    Append(ctxs, [bound |-> TRUE, slice |-> s, op |-> op, parent |-> c, arg |-> F])

\* ---------------------------------------------------------------- reads
\* GetAll (zax.go:37-42): the bound fields, or nil.
GetAll(c) == IF Bound(c) THEN ElemsIn(heap, LoggerFields(c)) ELSE <<>>

\* A GetField loop that keeps scanning and returns the last match.
RECURSIVE GetFieldScanLast(_, _, _)
GetFieldScanLast(loggerFields, i, key) ==
    LET k == Len(loggerFields) + 1 - i IN
    IF i > Len(loggerFields) THEN [field |-> ZeroField, ok |-> FALSE]
    ELSE IF loggerFields[k].Key = key THEN [field |-> loggerFields[k], ok |-> TRUE]
    ELSE GetFieldScanLast(loggerFields, i + 1, key)

\* The range loop of GetField (zax.go:62-66), from index i on.
RECURSIVE GetFieldScan(_, _, _)
GetFieldScan(loggerFields, i, key) ==
    IF i > Len(loggerFields) THEN [field |-> ZeroField, ok |-> FALSE]
    ELSE IF loggerFields[i].Key = key THEN [field |-> loggerFields[i], ok |-> TRUE]
    ELSE GetFieldScan(loggerFields, i + 1, key)

\* GetField (zax.go:60-69).
GetField(c, key) ==
    IF Bound(c) THEN GetFieldScan(ElemsIn(heap, LoggerFields(c)), 1, key)
    ELSE [field |-> ZeroField, ok |-> FALSE]

\* A GetFields loop that gives up on a context without a binding.
RECURSIVE GetFieldsLoopUnboundNil(_, _, _, _, _)
GetFieldsLoopUnboundNil(c, keys, i, fields, absentKeys) ==
    IF i > Len(keys) \/ ~Bound(c) THEN [fields |-> fields, absentKeys |-> <<>>]
    ELSE LET r == GetField(c, keys[i]) IN
         IF r.ok THEN GetFieldsLoopUnboundNil(c, keys, i + 1, Append(fields, r.field), absentKeys)
         ELSE GetFieldsLoopUnboundNil(c, keys, i + 1, fields, Append(absentKeys, keys[i]))

\* The range loop of GetFields (zax.go:48-54), from index i on.
RECURSIVE GetFieldsLoop(_, _, _, _, _)
GetFieldsLoop(c, keys, i, fields, absentKeys) ==
    IF i > Len(keys) THEN [fields |-> fields, absentKeys |-> absentKeys]
    ELSE LET r == GetField(c, keys[i]) IN
         IF r.ok THEN GetFieldsLoop(c, keys, i + 1, Append(fields, r.field), absentKeys)
         ELSE GetFieldsLoop(c, keys, i + 1, fields, Append(absentKeys, keys[i]))

\* A GetFields that reports absent keys only when there are some.
GetFieldsOmitEmpty(c, keys) ==
    LET r == GetFieldsLoop(c, keys, 1, <<>>, <<>>) IN
    IF r.absentKeys = <<>> THEN r.fields
    ELSE Append(r.fields, ZapStrings(AbsentFieldsKey, r.absentKeys))

\* GetFields (zax.go:45-57).
GetFields(c, keys) ==
    LET r == GetFieldsLoop(c, keys, 1, <<>>, <<>>) IN
    Append(r.fields, ZapStrings(AbsentFieldsKey, r.absentKeys))

\* --------------------------------------------------------------- writes
\* A Set that keeps the old binding when it is handed no fields.
SetBindingKeepOnEmpty(c, s) == IF s.len = 0 /\ Bound(c) THEN LoggerFields(c) ELSE s

\* The slice Set binds (zax.go:24): the caller's slice itself.
SetBinding(c, s) == s

\* An Append that puts the new fields first: append(fields, loggerFields...).
AppendResultPrepend(c, F) ==
    IF Bound(c)
    THEN LET lit == Literal(heap, F) IN GoAppend(lit.heap, lit.slice, GetAll(c))
    ELSE Literal(heap, F)

\* The heap and the slice Append binds (zax.go:30-33).
AppendResult(c, F) ==
    IF Bound(c) THEN GoAppend(heap, LoggerFields(c), F)
    ELSE Literal(heap, F)

\* A Prune loop that scans forwards, keeping each key's first occurrence.
RECURSIVE PruneLoopForward(_, _, _, _, _)
PruneLoopForward(h, loggerFields, i, prunedFields, seenKeys) ==
    LET k == Len(loggerFields) + 1 - i IN
    IF i < 1 THEN [heap |-> h, slice |-> prunedFields]
    ELSE LET field == loggerFields[k]
             r == IF field.Key \notin seenKeys
                  THEN GoAppend(h, prunedFields, <<field>>)
                  ELSE [heap |-> h, slice |-> prunedFields]
         IN PruneLoopForward(r.heap, loggerFields, i - 1, r.slice, seenKeys \cup {field.Key})

\* The loop of Prune (zax.go:76-82), from index i down.
RECURSIVE PruneLoop(_, _, _, _, _)
PruneLoop(h, loggerFields, i, prunedFields, seenKeys) ==
    IF i < 1 THEN [heap |-> h, slice |-> prunedFields]
    ELSE LET field == loggerFields[i]
             r == IF field.Key \notin seenKeys
                  THEN GoAppend(h, prunedFields, <<field>>)
                  ELSE [heap |-> h, slice |-> prunedFields]
         IN PruneLoop(r.heap, loggerFields, i - 1, r.slice, seenKeys \cup {field.Key})

Reverse(s) == [j \in 1..Len(s) |-> s[Len(s) + 1 - j]]

\* A Prune that compacts in place: prunedFields := loggerFields[:0].
PruneResultInPlace(c) ==
    IF Bound(c)
    THEN LET s == LoggerFields(c)
             r == PruneLoop(heap, ElemsIn(heap, s), s.len, [s EXCEPT !.len = 0], {})
         IN [new |-> TRUE, heap |-> r.heap, slice |-> r.slice]
    ELSE [new |-> FALSE, heap |-> heap, slice |-> NilSlice]

\* A Prune that restores chronological order before binding.
PruneResultChronological(c) ==
    IF Bound(c)
    THEN LET s == LoggerFields(c)
             m == MakeSlice(heap, s.len)
             r == PruneLoop(m.heap, ElemsIn(heap, s), s.len, m.slice, {})
             w == GoAppend(m.heap, m.slice, Reverse(ElemsIn(r.heap, r.slice)))
         IN [new |-> TRUE, heap |-> w.heap, slice |-> w.slice]
    ELSE [new |-> FALSE, heap |-> heap, slice |-> NilSlice]

\* Prune (zax.go:72-86): whether a context is made, and the heap and slice
\* it binds.
PruneResult(c) ==
    IF Bound(c)
    THEN LET s == LoggerFields(c)
             m == MakeSlice(heap, s.len)
             r == PruneLoop(m.heap, ElemsIn(heap, s), s.len, m.slice, {})
         IN [new |-> TRUE, heap |-> r.heap, slice |-> r.slice]
    ELSE [new |-> FALSE, heap |-> heap, slice |-> NilSlice]

\* --------------------------------------------------------------- inputs
\* The value of the field at position j of the argument of the call that
\* makes context n.
Token(n, j) == 10 * n + j

RECURSIVE SumLen(_, _)
SumLen(cs, i) == IF i > Len(cs) THEN 0 ELSE Len(cs[i].arg) + SumLen(cs, i + 1)

\* Fields supplied so far.
Supplied == SumLen(ctxs, 1)

\* The field slices a caller may pass to the call that makes context n,
\* with at most room fields.
Args(n, room) ==
    UNION {{[j \in 1..l |-> ZapField(ks[j], Token(n, j))] : ks \in [1..l -> Keys]} : l \in 0..room}

\* -------------------------------------------------------------- actions
\* last records the latest call: its name, the context and fields passed,
\* the context returned, and what GetAll showed of the context passed just
\* before the call.
Init ==
    /\ heap = <<>>
    /\ ctxs = <<Background>>
    /\ last = [op |-> "none", in |-> RootCtx, arg |-> <<>>, ret |-> RootCtx, before |-> <<>>]

Set(c, F) ==
    LET lit == Literal(heap, F) IN
    /\ heap' = lit.heap
    /\ ctxs' = WithValue(c, SetBinding(c, lit.slice), "Set", F)
    /\ last' = [op |-> "Set", in |-> c, arg |-> F, ret |-> Len(ctxs) + 1, before |-> GetAll(c)]

ZaxAppend(c, F) ==
    LET r == AppendResult(c, F) IN
    /\ heap' = r.heap
    /\ ctxs' = WithValue(c, r.slice, "Append", F)
    /\ last' = [op |-> "Append", in |-> c, arg |-> F, ret |-> Len(ctxs) + 1, before |-> GetAll(c)]

Prune(c) ==
    LET r == PruneResult(c) IN
    /\ heap' = r.heap
    /\ ctxs' = IF r.new THEN WithValue(c, SetBinding(c, r.slice), "Prune", <<>>) ELSE ctxs
    /\ last' = [op |-> "Prune", in |-> c, arg |-> <<>>,
                ret |-> IF r.new THEN Len(ctxs) + 1 ELSE c, before |-> GetAll(c)]

\* A caller holding any context calls Set, Append or Prune on it, while the
\* behaviour stays within maxCtx derived contexts and maxFields fields.
SetCall(maxCtx, maxFields) ==
    /\ Len(ctxs) <= maxCtx
    /\ \E c \in CtxIds : \E F \in Args(Len(ctxs) + 1, maxFields - Supplied) : Set(c, F)

AppendCall(maxCtx, maxFields) ==
    /\ Len(ctxs) <= maxCtx
    /\ \E c \in CtxIds : \E F \in Args(Len(ctxs) + 1, maxFields - Supplied) : ZaxAppend(c, F)

PruneCall(maxCtx) ==
    \E c \in CtxIds :
        /\ Len(ctxs) <= maxCtx \/ ~Bound(c)
        /\ Prune(c)

Next ==
    \/ SetCall(MaxCtx, MaxFields)
    \/ AppendCall(MaxCtx, MaxFields)
    \/ PruneCall(MaxCtx)

Spec == Init /\ [][Next]_vars

NextFan ==
    \/ SetCall(MaxCtxFan, MaxFieldsFan)
    \/ AppendCall(MaxCtxFan, MaxFieldsFan)
    \/ PruneCall(MaxCtxFan)

SpecFan == Init /\ [][NextFan]_vars

NextRead ==
    \/ SetCall(MaxCtxRead, MaxFieldsRead)
    \/ AppendCall(MaxCtxRead, MaxFieldsRead)
    \/ PruneCall(MaxCtxRead)

SpecRead == Init /\ [][NextRead]_vars

\* ========================================================= properties
\* Helpers of the properties.
KeysOf(S) == {S[i].Key : i \in 1..Len(S)}

HasKey(S, k) == \E i \in 1..Len(S) : S[i].Key = k

\* Position of the first and of the last field of S with key k.
FirstIndex(S, k) == CHOOSE i \in 1..Len(S) : S[i].Key = k /\ \A j \in 1..(i - 1) : S[j].Key # k
LastIndex(S, k) == CHOOSE i \in 1..Len(S) : S[i].Key = k /\ \A j \in (i + 1)..Len(S) : S[j].Key # k

NoRepeatedKey(S) == \A i, j \in 1..Len(S) : i # j => S[i].Key # S[j].Key

\* Longest key list a reader asks GetFields for.
MaxReq == 2

ReqKeySeqs == UNION {[1..n -> ReqKeys] : n \in 0..MaxReq}

\* What GetAll shows of the context Prune would return for context c.
PrunedView(c) == LET r == PruneResult(c) IN IF r.new THEN ElemsIn(r.heap, r.slice) ELSE GetAll(c)

\* C1: the context Append returns shows the fields bound to the context
\* passed, followed by the fields passed, in that order; nothing is dropped
\* or deduplicated, and the length is the sum of the two lengths.
C1_AppendConcatenates ==
    last.op = "Append" =>
        /\ GetAll(last.ret) = last.before \o last.arg
        /\ Len(GetAll(last.ret)) = Len(last.before) + Len(last.arg)

\* An Append of fields onto a context that already binds fields, one of the
\* new keys being bound already.
C1_Witness ==
    /\ last.op = "Append"
    /\ last.before # <<>>
    /\ last.arg # <<>>
    /\ KeysOf(last.before) \cap KeysOf(last.arg) # {}

\* C2: the context Set returns shows exactly the fields passed, whatever was
\* bound to the context passed.
C2_SetReplaces ==
    last.op = "Set" => GetAll(last.ret) = last.arg

\* A Set on a context whose non-empty binding came from Append or Prune.
C2_Witness ==
    /\ last.op = "Set"
    /\ last.before # <<>>
    /\ ctxs[last.in].op \in {"Append", "Prune"}

\* C3: every context made by Append shows what its parent shows followed by
\* the fields passed to that Append, whatever calls came after it; no child
\* shows a field passed only to another child.
C3_FanOutIndependent ==
    \A c \in CtxIds :
        ctxs[c].op = "Append" => GetAll(c) = GetAll(ctxs[c].parent) \o ctxs[c].arg

\* C4: a call of Set, Append or Prune leaves what GetAll shows of the
\* context passed to it as it was before the call.
C4_InputUnchanged ==
    last.op # "none" => GetAll(last.in) = last.before

\* An Append that wrote the new fields into the backing array of the
\* context passed to it.
C4_Witness ==
    /\ last.op = "Append"
    /\ last.arg # <<>>
    /\ last.before # <<>>
    /\ ctxs[last.ret].slice.arr = ctxs[last.in].slice.arr

\* C5: the context Prune returns for a bound context shows one field for each
\* key of the sequence bound before and no other field, and for each key it
\* is the occurrence at the highest position.
C5_PruneKeepsLast ==
    (last.op = "Prune" /\ Bound(last.in)) =>
        LET S == last.before
            R == GetAll(last.ret)
        IN /\ NoRepeatedKey(R)
           /\ KeysOf(R) = KeysOf(S)
           /\ \A i \in 1..Len(R) : R[i] = S[LastIndex(S, R[i].Key)]

\* Prune(Append(Set(ctx, [a=1]), [a=2])).
C5_Witness ==
    /\ last.op = "Prune"
    /\ ctxs[last.in].op = "Append"
    /\ ctxs[ctxs[last.in].parent].op = "Set"
    /\ Len(last.before) = 2
    /\ last.before[1].Key = last.before[2].Key
    /\ last.before[2] = ctxs[last.in].arg[1]
    /\ GetAll(last.ret) = <<last.before[2]>>

\* C6: after an Append that passes a key the context already binds, every
\* read of that key on the returned context gives the field passed last:
\* GetField, the entry of GetFields, and the entry Prune keeps.
C6_PrecedenceUniform ==
    last.op = "Append" =>
        \A k \in Keys :
            (HasKey(last.before, k) /\ HasKey(last.arg, k)) =>
                LET newest == last.arg[LastIndex(last.arg, k)]
                    P == PrunedView(last.ret)
                IN /\ GetField(last.ret, k).field = newest
                   /\ GetFields(last.ret, <<k>>)[1] = newest
                   /\ P[FirstIndex(P, k)] = newest

\* C7: GetFields returns the fields found, in request order, then one field
\* with key AbsentFieldsKey holding the keys not found, in request order,
\* also when none is absent; a requested key is returned or listed, not both.
C7_GetFieldsShape ==
    \A c \in CtxIds :
        LET one == [k \in ReqKeys |-> GetField(c, k)]
            Found(k) == one[k].ok
            NotFound(k) == ~one[k].ok
        IN \A K \in ReqKeySeqs :
            LET found == SelectSeq(K, Found)
                absent == SelectSeq(K, NotFound)
                R == GetFields(c, K)
            IN /\ Len(R) = Len(found) + 1
               /\ \A i \in 1..Len(found) : R[i] = one[found[i]].field
               /\ R[Len(R)] = ZapStrings(AbsentFieldsKey, absent)
               /\ \A i \in 1..Len(K) :
                      (\E j \in 1..Len(found) : R[j].Key = K[i])
                          <=> ~(\E j \in 1..Len(absent) : R[Len(R)].Strs[j] = K[i])

\* A context on which one requested key is found and another is not, and
\* one on which every requested key is found.
C7_Witness ==
    /\ last.op \in {"Set", "Append", "Prune"}
    /\ Len(GetFields(last.ret, <<"a", "missing">>)) = 2
    /\ GetFields(last.ret, <<"a">>)[2].Strs = <<>>

\* C8: GetField returns the first field in scan order whose key is the one
\* asked for, with true, and the zero field with false when there is none
\* or nothing is bound; it never returns the absent-keys field.
C8_GetFieldFirstMatch ==
    \A c \in CtxIds : \A k \in ReqKeys :
        LET S == GetAll(c)
            r == GetField(c, k)
        IN /\ HasKey(S, k) => (r.ok /\ r.field = S[FirstIndex(S, k)])
           /\ ~HasKey(S, k) => (~r.ok /\ r.field = ZeroField)
           /\ r.field.Type # "ArrayMarshaler"

\* A context that binds the same key twice.
C8_Witness ==
    \E c \in CtxIds : \E i, j \in 1..Len(GetAll(c)) :
        i < j /\ GetAll(c)[i].Key = GetAll(c)[j].Key

\* C9: on a context that binds nothing, GetAll is empty, GetField finds
\* nothing, GetFields returns only the absent-keys field listing every
\* requested key, and Prune returns a context on which GetAll is empty.
C9_AbsenceIsNormal ==
    \A c \in CtxIds :
        ~Bound(c) =>
            /\ GetAll(c) = <<>>
            /\ \A k \in ReqKeys : GetField(c, k) = [field |-> ZeroField, ok |-> FALSE]
            /\ \A K \in ReqKeySeqs : GetFields(c, K) = <<ZapStrings(AbsentFieldsKey, K)>>
            /\ PrunedView(c) = <<>>
            /\ (last.op = "Prune" /\ last.in = c) => GetAll(last.ret) = <<>>

\* Prune called on the context that binds nothing, after other contexts
\* were derived from it.
C9_Witness ==
    /\ last.op = "Prune"
    /\ ~Bound(last.in)
    /\ Len(ctxs) > 1

\* C10: Prune lists the kept fields by decreasing position of their kept
\* occurrence; a sequence without repeated key comes back reversed; and
\* Prune of a context Prune returned binds the same fields in reverse order.
C10_PruneReverseOrder ==
    (last.op = "Prune" /\ Bound(last.in)) =>
        LET S == last.before
            R == GetAll(last.ret)
        IN /\ \A i, j \in 1..Len(R) :
                  i < j => LastIndex(S, R[i].Key) > LastIndex(S, R[j].Key)
           /\ NoRepeatedKey(S) => R = Reverse(S)
           /\ ctxs[last.in].op = "Prune" =>
                  /\ Len(R) = Len(S)
                  /\ {R[i] : i \in 1..Len(R)} = {S[i] : i \in 1..Len(S)}
                  /\ R = Reverse(S)

\* Prune of a context Prune returned, with at least two fields kept.
C10_Witness ==
    /\ last.op = "Prune"
    /\ ctxs[last.in].op = "Prune"
    /\ Len(last.before) >= 2
    /\ GetAll(last.ret) = Reverse(last.before)

====
